---------------------------- MODULE Spec2Model ----------------------------
(***************************************************************************)
(* A model of the Sacai chess engine: the UCI session controller           *)
(* (src/src/communication.py) and the positional evaluator                 *)
(* (src/src/eval.py).                                                      *)
(*                                                                         *)
(* Text is modelled as text: an input line is a string, tokenised as the   *)
(* code tokenises it, and a FEN is parsed and serialised character by      *)
(* character.  The rules library (python-chess) is modelled by what its    *)
(* calls do: set_fen, fen, push_uci, reset, piece_at.  Move legality is    *)
(* pseudo-legal generation plus king safety; castling moves are not        *)
(* generated (no line of the bounded vocabulary castles).                  *)
(***************************************************************************)
EXTENDS Integers, Sequences, FiniteSets, TLC

VARIABLES
    argv,       \* the process's command-line arguments (after the program name)
    depth,      \* talk(): depth = get_depth()
    board,      \* talk(): board = chess.Board(), mutated in place by command()
    status,     \* "running" | "exited" (sys.exit) | "crashed" (uncaught exception)
    exc,        \* the exception that ended the process, "" while running
    msg,        \* the last line read by input(), "" before the first
    out,        \* the lines the last command printed on standard output
    calls,      \* the next_move invocations the last command made
    lastpos,    \* history: the most recent line that set a position, "" if none
    total,      \* evaluator: <<the last evaluate_board result>>, NoValue before
    end_game    \* evaluator: <<the last check_end_game result>>, NoValue before

vars == <<argv, depth, board, status, exc, msg, out, calls, lastpos, total, end_game>>

NoValue == <<>>

-----------------------------------------------------------------------------
(* Strings.  TLC gives Len, Head, Tail, SubSeq and \o on strings.          *)

CharAt(s, i) == SubSeq(s, i, i)

\* c occurs in s (Python: c in s, for a one-character c)
InStr(c, s) == \E i \in 1..Len(s) : CharAt(s, i) = c

\* Python: s.index(c) for a one-character c that occurs in s (0-based)
IndexOf(c, s) == (CHOOSE i \in 1..Len(s) : CharAt(s, i) = c) - 1

Digits == "0123456789"
FILE_NAMES == "abcdefgh"
RANK_NAMES == "12345678"

\* the characters of a string, and each character's 0-based index
Chars(s) == {CharAt(s, i) : i \in 1..Len(s)}
IndexIn(s) == [c \in Chars(s) |-> IndexOf(c, s)]

DigitChars == Chars(Digits)
DigitValue == IndexIn(Digits)
FileChars == Chars(FILE_NAMES)
FileIndex == IndexIn(FILE_NAMES)
RankChars == Chars(RANK_NAMES)
RankIndex == IndexIn(RANK_NAMES)

\* Python: s.startswith(p), and the slice s[0:n] == p
startswith(s, p) == Len(s) >= Len(p) /\ SubSeq(s, 1, Len(p)) = p

RECURSIVE lstrip(_)
lstrip(s) == IF s # "" /\ Head(s) = " " THEN lstrip(Tail(s)) ELSE s

RECURSIVE rstrip(_)
rstrip(s) ==
    IF s # "" /\ CharAt(s, Len(s)) = " " THEN rstrip(SubSeq(s, 1, Len(s) - 1)) ELSE s

\* Python: s.strip()
strip(s) == rstrip(lstrip(s))

\* Python: s.split(sep) for a one-character sep: empty pieces are kept.  The
\* piece that starts at character start, and those after it; i scans for sep.
RECURSIVE splitFrom(_, _, _, _)
splitFrom(s, sep, start, i) ==
    IF i > Len(s) THEN <<SubSeq(s, start, Len(s))>>
    ELSE IF CharAt(s, i) = sep
         THEN <<SubSeq(s, start, i - 1)>> \o splitFrom(s, sep, i + 1, i + 1)
         ELSE splitFrom(s, sep, start, i + 1)

split(s, sep) == splitFrom(s, sep, 1, 1)

\* Python: sep.join(seq)
RECURSIVE join(_, _)
join(sep, seq) ==
    IF seq = <<>> THEN ""
    ELSE IF Len(seq) = 1 THEN seq[1]
    ELSE seq[1] \o sep \o join(sep, Tail(seq))

\* Python: seq[a:b] with 0 <= a <= b (the slice is cut at the end of seq)
slice(seq, a, b) ==
    LET hi == IF b < Len(seq) THEN b ELSE Len(seq)
    IN  IF a >= hi THEN <<>> ELSE SubSeq(seq, a + 1, hi)

\* Python: int(s) succeeds (an optional sign, then decimal digits)
IsInt(s) ==
    LET body == IF s # "" /\ Head(s) \in {"-", "+"} THEN Tail(s) ELSE s
    IN  body # "" /\ \A i \in 1..Len(body) : CharAt(body, i) \in DigitChars

RECURSIVE natOf(_, _)
natOf(s, acc) ==
    IF s = "" THEN acc ELSE natOf(Tail(s), 10 * acc + DigitValue[Head(s)])

\* Python: int(s), for IsInt(s)
int(s) ==
    IF Head(s) = "-" THEN 0 - natOf(Tail(s), 0)
    ELSE IF Head(s) = "+" THEN natOf(Tail(s), 0)
    ELSE natOf(s, 0)

RECURSIVE strNat(_)
strNat(n) ==
    IF n < 10 THEN CharAt(Digits, n + 1)
    ELSE strNat(n \div 10) \o CharAt(Digits, (n % 10) + 1)

\* Python: str(n)
str(n) == IF n < 0 THEN "-" \o strNat(0 - n) ELSE strNat(n)

-----------------------------------------------------------------------------
(* The rules library's board (chess.Board), as the calls of command() and  *)
(* of the evaluator use it.                                                *)

SQUARES == 0..63
WHITE == TRUE
BLACK == FALSE
NoPiece == "."          \* piece_at(square) is None; also the "." of str(board)
NoSquare == -1          \* ep_square is None

WhiteSymbols == "PNBRQK"
BlackSymbols == "pnbrqk"
PAWN == "p"
KNIGHT == "n"
BISHOP == "b"
ROOK == "r"
QUEEN == "q"
KING == "k"

square_file(sq) == sq % 8
square_rank(sq) == sq \div 8
square(f, r) == r * 8 + f

\* SQUARE_NAMES[sq]
square_name(sq) ==
    CharAt(FILE_NAMES, square_file(sq) + 1) \o CharAt(RANK_NAMES, square_rank(sq) + 1)

IsSquareName(s) ==
    Len(s) = 2 /\ CharAt(s, 1) \in FileChars /\ CharAt(s, 2) \in RankChars

\* SQUARE_NAMES.index(s), for IsSquareName(s)
square_index(s) == square(FileIndex[CharAt(s, 1)], RankIndex[CharAt(s, 2)])

\* Python: c.lower() and c.upper() of a piece symbol
LowerOf == [c \in {"P", "N", "B", "R", "Q", "K", "p", "n", "b", "r", "q", "k"} |->
               IF InStr(c, WhiteSymbols)
               THEN CharAt(BlackSymbols, IndexOf(c, WhiteSymbols) + 1) ELSE c]
UpperOf == [c \in {"p", "n", "b", "r", "q", "k"} |->
               CharAt(WhiteSymbols, IndexOf(c, BlackSymbols) + 1)]

IsPieceSymbol(c) == c \in DOMAIN LowerOf

\* Piece.color and Piece.piece_type of a piece symbol (Piece.from_symbol)
color_of(sym) == sym \in {"P", "N", "B", "R", "Q", "K"}
piece_type_of(sym) == LowerOf[sym]

\* Piece(piece_type, color).symbol()
symbol(pt, color) == IF color = WHITE THEN UpperOf[pt] ELSE pt

\* One row of a FEN board part, expanded to its squares (a digit is that many
\* empty squares).
RECURSIVE expandRow(_)
expandRow(row) ==
    IF row = "" THEN <<>>
    ELSE IF Head(row) \in RankChars
         THEN SubSeq(<<NoPiece, NoPiece, NoPiece, NoPiece,
                         NoPiece, NoPiece, NoPiece, NoPiece>>,
                       1, RankIndex[Head(row)] + 1)
              \o expandRow(Tail(row))
         ELSE <<Head(row)>> \o expandRow(Tail(row))

\* _set_board_fen's validation of one row: digits 1..8 and piece symbols only,
\* no two digits in a row, eight squares in all.
validRow(row) ==
    /\ \A i \in 1..Len(row) :
           CharAt(row, i) \in RankChars \/ IsPieceSymbol(CharAt(row, i))
    /\ \A i \in 1..(Len(row) - 1) :
           ~(CharAt(row, i) \in RankChars /\ CharAt(row, i + 1) \in RankChars)
    /\ Len(expandRow(row)) = 8

validBoardFen(part) ==
    LET valid(rows) == Len(rows) = 8 /\ \A i \in 1..8 : validRow(rows[i])
    IN  valid(split(part, "/"))

\* The pieces of a board: the symbol on each square or NoPiece, a tuple whose
\* entry sq + 1 is for square sq.
at(pieces, sq) == pieces[sq + 1]

\* Board.piece_at(square)
piece_at(b, sq) == at(b.pieces, sq)

\* _set_board_fen: the first row of the FEN is rank 8.
piecesOfFen(part) ==
    LET place(rows) ==
            expandRow(rows[8]) \o expandRow(rows[7]) \o expandRow(rows[6])
            \o expandRow(rows[5]) \o expandRow(rows[4]) \o expandRow(rows[3])
            \o expandRow(rows[2]) \o expandRow(rows[1])
    IN  place(split(part, "/"))

\* board_fen(): ranks 8 down to 1, runs of empty squares counted.
RECURSIVE rowFen(_, _, _, _)
rowFen(pieces, r, f, empty) ==
    IF f = 8 THEN (IF empty > 0 THEN str(empty) ELSE "")
    ELSE IF at(pieces, square(f, r)) = NoPiece THEN rowFen(pieces, r, f + 1, empty + 1)
    ELSE (IF empty > 0 THEN str(empty) ELSE "")
         \o at(pieces, square(f, r)) \o rowFen(pieces, r, f + 1, 0)

board_fen(pieces) == join("/", [i \in 1..8 |-> rowFen(pieces, 8 - i, 0, 0)])

\* str(board): the ranks from 8 down, squares separated by spaces.
board_str(pieces) ==
    join("\n", [i \in 1..8 |-> join(" ", [f \in 1..8 |-> at(pieces, square(f - 1, 8 - i))])])

\* Board.king(color): the king's square, or NoSquare
king(pieces, color) ==
    LET last(ks)  == IF ks = {} THEN NoSquare ELSE CHOOSE sq \in ks : \A o \in ks : o <= sq
        kings(sym) == last({sq \in SQUARES : at(pieces, sq) = sym})
    IN  kings(symbol(KING, color))

backrank(color) == IF color = WHITE THEN 0..7 ELSE 56..63

WhiteFlags == Chars("KQABCDEFGH")
BlackFlags == Chars("kqabcdefgh")
FlagLower == [c \in WhiteFlags |-> CharAt("kqabcdefgh", IndexOf(c, "KQABCDEFGH") + 1)]

\* FEN_CASTLING_REGEX: - or [KQABCDEFGH]{0,2}[kqabcdefgh]{0,2}
validCastling(s) ==
    \/ s = "-"
    \/ \E k \in 0..2 :
          /\ k <= Len(s)
          /\ Len(s) - k <= 2
          /\ \A i \in 1..k : CharAt(s, i) \in WhiteFlags
          /\ \A i \in (k + 1)..Len(s) : CharAt(s, i) \in BlackFlags

\* _set_castling_fen, one flag: the rook square the flag names.
castlingFlag(pieces, flag) ==
    LET color == flag \in WhiteFlags
        low   == IF color = WHITE THEN FlagLower[flag] ELSE flag
        base  == IF color = WHITE THEN 0 ELSE 56
        lsb(rooks) == IF rooks = {} THEN -1 ELSE CHOOSE sq \in rooks : \A o \in rooks : sq <= o
        msb(rooks) == IF rooks = {} THEN -1 ELSE CHOOSE sq \in rooks : \A o \in rooks : o <= sq
        right(rooks, k) ==
            IF low = "q"
            THEN IF k # NoSquare /\ lsb(rooks) < k
                 THEN (IF rooks = {} THEN {} ELSE {lsb(rooks)})
                 ELSE {base}
            ELSE IF low = "k"
            THEN IF k # NoSquare /\ k < msb(rooks) THEN {msb(rooks)} ELSE {base + 7}
            ELSE {base + FileIndex[low]}
    IN  right({sq \in backrank(color) : at(pieces, sq) = symbol(ROOK, color)},
              king(pieces, color))

\* _set_castling_fen: the castling rights, as the set of rook squares.
castlingOfFen(pieces, part) ==
    IF part = "-" THEN {}
    ELSE UNION {castlingFlag(pieces, CharAt(part, i)) : i \in 1..Len(part)}

\* clean_castling_rights() of a standard board: a right stands only for a rook
\* on its corner with its king on e1 / e8.
clean_castling_rights(b) ==
    LET keep(color) ==
            LET corners == IF color = WHITE THEN {0, 7} ELSE {56, 63}
                home    == IF color = WHITE THEN 4 ELSE 60
            IN  IF piece_at(b, home) = symbol(KING, color)
                THEN {sq \in b.castling \cap corners : piece_at(b, sq) = symbol(ROOK, color)}
                ELSE {}
    IN  keep(WHITE) \cup keep(BLACK)

\* castling_xfen(): white before black, the h-side rook before the a-side one.
castling_xfen(b) ==
    LET flags(c) == (IF 7 \in c THEN "K" ELSE "") \o (IF 0 \in c THEN "Q" ELSE "")
                    \o (IF 63 \in c THEN "k" ELSE "") \o (IF 56 \in c THEN "q" ELSE "")
        dash(s)  == IF s = "" THEN "-" ELSE s
    IN  dash(flags(clean_castling_rights(b)))

\* chess.Board(): the starting position; also Board.reset()
StartingPieces ==
    piecesOfFen("rnbqkbnr/pppppppp/8/8/8/8/PPPPPPPP/RNBQKBNR")

reset ==
    [pieces |-> StartingPieces, turn |-> WHITE, castling |-> {0, 7, 56, 63},
     ep |-> NoSquare, halfmove |-> 0, fullmove |-> 1]

\* set_fen(fen) raises ValueError
set_fen_raises(fen) ==
    LET raises(parts, n) ==
            \/ fen = ""
            \/ n > 6
            \/ n >= 2 /\ parts[2] \notin {"w", "b"}
            \/ n >= 3 /\ ~validCastling(parts[3])
            \/ n >= 4 /\ parts[4] # "-" /\ ~IsSquareName(parts[4])
            \/ n >= 5 /\ (~IsInt(parts[5]) \/ (IsInt(parts[5]) /\ int(parts[5]) < 0))
            \/ n >= 6 /\ (~IsInt(parts[6]) \/ (IsInt(parts[6]) /\ int(parts[6]) < 0))
            \/ ~validBoardFen(parts[1])
        of(parts) == raises(parts, Len(parts))
    IN  of(split(fen, " "))

\* set_fen(fen), for a fen it accepts: missing parts take their defaults, and a
\* fullmove number of 0 is replaced by 1.
set_fen(fen) ==
    LET apply(parts, n, pieces, full) ==
            [pieces   |-> pieces,
             turn     |-> IF n >= 2 THEN parts[2] = "w" ELSE WHITE,
             castling |-> IF n >= 3 THEN castlingOfFen(pieces, parts[3]) ELSE {},
             ep       |-> IF n >= 4 /\ parts[4] # "-" THEN square_index(parts[4])
                          ELSE NoSquare,
             halfmove |-> IF n >= 5 THEN int(parts[5]) ELSE 0,
             fullmove |-> IF full > 1 THEN full ELSE 1]
        of(parts) == apply(parts, Len(parts), piecesOfFen(parts[1]),
                           IF Len(parts) >= 6 THEN int(parts[6]) ELSE 1)
    IN  of(split(fen, " "))

-----------------------------------------------------------------------------
(* Moves of the rules library: Move.from_uci, is_legal, push, fen.         *)

NullMove == [from |-> 0, to |-> 0, promotion |-> NoPiece]

\* Move.from_uci(uci) raises InvalidMoveError (a ValueError)
from_uci_raises(uci) ==
    /\ uci # "0000"
    /\ \/ Len(uci) \notin {4, 5}
       \/ ~IsSquareName(SubSeq(uci, 1, 2))
       \/ ~IsSquareName(SubSeq(uci, 3, 4))
       \/ Len(uci) = 5 /\ CharAt(uci, 5) \notin Chars(BlackSymbols)
       \/ SubSeq(uci, 1, 2) = SubSeq(uci, 3, 4)

\* Move.from_uci(uci), for a uci it accepts
from_uci(uci) ==
    IF uci = "0000" THEN NullMove
    ELSE [from      |-> square_index(SubSeq(uci, 1, 2)),
          to        |-> square_index(SubSeq(uci, 3, 4)),
          promotion |-> IF Len(uci) = 5 THEN CharAt(uci, 5) ELSE NoPiece]

Abs(n) == IF n < 0 THEN 0 - n ELSE n
Sign(n) == IF n < 0 THEN -1 ELSE IF n > 0 THEN 1 ELSE 0

\* the squares strictly between two squares of a rank, a file or a diagonal
between(a, c) ==
    LET df == square_file(c) - square_file(a)
        dr == square_rank(c) - square_rank(a)
        n  == IF Abs(df) > Abs(dr) THEN Abs(df) ELSE Abs(dr)
    IN  {square(square_file(a) + i * Sign(df), square_rank(a) + i * Sign(dr)) : i \in 1..(n - 1)}

\* attacks_mask(from) contains to: the piece on from attacks the square to
attacks(pieces, from, to) ==
    LET sym == at(pieces, from)
        pt  == piece_type_of(sym)
        df  == square_file(to) - square_file(from)
        dr  == square_rank(to) - square_rank(from)
        clear == \A sq \in between(from, to) : at(pieces, sq) = NoPiece
        line  == (df = 0 \/ dr = 0) /\ from # to
        diag  == Abs(df) = Abs(dr) /\ from # to
    IN  /\ sym # NoPiece
        /\ CASE pt = PAWN   -> Abs(df) = 1 /\ dr = (IF color_of(sym) = WHITE THEN 1 ELSE -1)
             [] pt = KNIGHT -> {Abs(df), Abs(dr)} = {1, 2}
             [] pt = KING   -> Abs(df) <= 1 /\ Abs(dr) <= 1 /\ from # to
             [] pt = BISHOP -> diag /\ clear
             [] pt = ROOK   -> line /\ clear
             [] pt = QUEEN  -> (line \/ diag) /\ clear
             [] OTHER       -> FALSE

\* is_attacked_by(color, sq)
is_attacked_by(pieces, color, sq) ==
    \E from \in SQUARES :
        at(pieces, from) # NoPiece /\ color_of(at(pieces, from)) = color /\ attacks(pieces, from, sq)

\* the en passant capture of generate_pseudo_legal_ep
is_pseudo_legal_ep(b, m) ==
    /\ b.ep # NoSquare /\ b.ep # 0
    /\ m.to = b.ep
    /\ piece_at(b, b.ep) = NoPiece
    /\ piece_at(b, m.from) = symbol(PAWN, b.turn)
    /\ square_rank(m.from) = (IF b.turn = WHITE THEN 4 ELSE 3)
    /\ attacks(b.pieces, m.from, b.ep)

\* a pawn move of generate_pseudo_legal_moves: capture, single or double step,
\* en passant; a move to the last rank promotes to a queen, rook, bishop or knight.
pawn_move(b, m) ==
    LET up   == IF b.turn = WHITE THEN 8 ELSE -8
        home == IF b.turn = WHITE THEN 1 ELSE 6
        last == IF b.turn = WHITE THEN 7 ELSE 0
        dest == piece_at(b, m.to)
    IN  /\ \/ attacks(b.pieces, m.from, m.to) /\ dest # NoPiece /\ color_of(dest) # b.turn
           \/ m.to = m.from + up /\ dest = NoPiece
           \/ /\ m.to = m.from + 2 * up /\ square_rank(m.from) = home
              /\ dest = NoPiece /\ piece_at(b, m.from + up) = NoPiece
           \/ is_pseudo_legal_ep(b, m)
        /\ IF square_rank(m.to) = last
           THEN m.promotion \in {QUEEN, ROOK, BISHOP, KNIGHT}
           ELSE m.promotion = NoPiece

\* is_pseudo_legal(move), castling aside
is_pseudo_legal(b, m) ==
    LET sym == piece_at(b, m.from)
    IN  /\ sym # NoPiece
        /\ color_of(sym) = b.turn
        /\ m.promotion # NoPiece =>
               /\ piece_type_of(sym) = PAWN
               /\ square_rank(m.to) = (IF b.turn = WHITE THEN 7 ELSE 0)
        /\ ~(piece_at(b, m.to) # NoPiece /\ color_of(piece_at(b, m.to)) = b.turn)
        /\ IF piece_type_of(sym) = PAWN THEN pawn_move(b, m)
           ELSE attacks(b.pieces, m.from, m.to)

\* the pieces after push(move)
pieces_after(b, m) ==
    LET sym   == piece_at(b, m.from)
        isEp  == /\ piece_type_of(sym) = PAWN /\ m.to = b.ep
                 /\ Abs(m.to - m.from) \in {7, 9} /\ piece_at(b, m.to) = NoPiece
        capSq == IF isEp THEN b.ep + (IF b.turn = WHITE THEN -8 ELSE 8) ELSE m.to
        put   == IF m.promotion # NoPiece THEN symbol(m.promotion, b.turn) ELSE sym
    IN  [b.pieces EXCEPT ![m.from + 1] = NoPiece, ![capSq + 1] = NoPiece,
                             ![m.to + 1] = put]

\* is_into_check(move): the mover's king is attacked after the move
is_into_check(b, m) ==
    LET attacked(after, k) == k # NoSquare /\ is_attacked_by(after, ~b.turn, k)
        check(after)       == attacked(after, king(after, b.turn))
    IN  check(pieces_after(b, m))

\* is_legal(move)
is_legal(b, m) == is_pseudo_legal(b, m) /\ ~is_into_check(b, m)

\* has_legal_en_passant()
has_legal_en_passant(b) ==
    /\ b.ep # NoSquare
    /\ \E from \in SQUARES :
          LET m == [from |-> from, to |-> b.ep, promotion |-> NoPiece]
          IN  is_pseudo_legal_ep(b, m) /\ ~is_into_check(b, m)

\* push(move): counters, en passant square, castling rights, pieces, turn
push(b, m) ==
    LET sym     == piece_at(b, m.from)
        pt      == piece_type_of(sym)
        zeroing == pt = PAWN \/ piece_at(b, m.to) # NoPiece
        diff    == m.to - m.from
        rights  == clean_castling_rights(b) \ {m.from, m.to}
        full    == IF b.turn = BLACK THEN b.fullmove + 1 ELSE b.fullmove
    IN  IF m = NullMove
        THEN [b EXCEPT !.ep = NoSquare, !.halfmove = b.halfmove + 1,
                       !.fullmove = full, !.turn = ~b.turn]
        ELSE [pieces   |-> pieces_after(b, m),
              turn     |-> ~b.turn,
              castling |-> IF pt = KING THEN rights \ backrank(b.turn) ELSE rights,
              ep       |-> IF pt = PAWN /\ diff = 16 /\ square_rank(m.from) = 1
                           THEN m.from + 8
                           ELSE IF pt = PAWN /\ diff = -16 /\ square_rank(m.from) = 6
                           THEN m.from - 8
                           ELSE NoSquare,
              halfmove |-> IF zeroing THEN 0 ELSE b.halfmove + 1,
              fullmove |-> full]

\* push_uci(uci) raises ValueError: the token is no move, or the move is illegal
push_uci_raises(b, uci) ==
    \/ from_uci_raises(uci)
    \/ uci # "0000" /\ ~is_legal(b, from_uci(uci))

\* push_uci(uci), for a token it accepts
push_uci(b, uci) == push(b, from_uci(uci))

\* epd(): the first four fields of fen(); the en passant square is given only
\* when an en passant capture is legal.
epd(b) ==
    join(" ", <<board_fen(b.pieces),
                IF b.turn = WHITE THEN "w" ELSE "b",
                castling_xfen(b),
                IF has_legal_en_passant(b) THEN square_name(b.ep) ELSE "-">>)

\* fen()
fen(b) == join(" ", <<epd(b), str(b.halfmove), str(b.fullmove)>>)

-----------------------------------------------------------------------------
(* The positional evaluator: src/src/eval.py.                              *)

\* piece_value[piece_type]
piece_value(pt) ==
    CASE pt = PAWN   -> 112
      [] pt = ROOK   -> 510
      [] pt = KNIGHT -> 298
      [] pt = BISHOP -> 335
      [] pt = QUEEN  -> 892
      [] pt = KING   -> -999

\* Python: list(reversed(t))
reversed(t) == [i \in 1..Len(t) |-> t[Len(t) + 1 - i]]

pawnEvalWhite == <<
    0,  0,  0,  0,  0,  0,  0,  0,
    5, 12, 10, -20, -20, 10, 12,  5,
    5, 30, -10,  0,  0, -10, 30,  5,
    0,  0,  65, 65, 65,  65,  0,  0,
    5,  5, 23, 113, 122, 112,  5,  5,
    10, 30, 20, 150, 150, 120, 30, 10,
    50, 50, 50, 150, 150, 150, 50, 50,
    202, 202, 202, 205, 205, 205, 205, 205 >>
pawnEvalBlack == reversed(pawnEvalWhite)

knightEval == <<
    -50, -40, -30, -30, -30, -30, -40, -50,
    -40, -20, 0, 0, 0, 0, -20, -40,
    -30, 0, 10, 15, 15, 10, -40, -30,
    -30, 5, 15, 20, 20, 15, 5, -30,
    -30, 0, 15, 20, 20, 15, 0, -30,
    -30, 5, -5, 15, 15, 10, -5, -30,
    -40, -20, 0, 5, 5, 0, -20, -40,
    -50, -25, -30, -30, -30, -30, -25, -50 >>

bishopEvalWhite == <<
    -20, -10, -10, -10, -10, -10, -10, -20,
    -10, 40, 0, 0, 0, 0, 40, -10,
    -10, 10, 10, 10, 10, 10, 10, -10,
    -10, 0, 10, 10, 10, 10, 0, -10,
    -10, 5, 5, 10, 10, 5, 5, -10,
    -10, 0, 5, 10, 10, 5, 0, -10,
    -10, 12, 0, 0, 0, 0, 12, -10,
    -20, -10, -10, -10, -10, -10, -10, -20 >>
bishopEvalBlack == reversed(bishopEvalWhite)

rookEvalWhite == <<
    0, 0, 0, 5, 5, 0, 0, 0,
    -5, 0, 0, 0, 0, 0, 0, -5,
    -5, 10, 20, 5, 15, 10, 0, -5,
    -5, 10, 20, 15, 20, 20, 10, -5,
    -5, 15, 20, 30, 20, 20, 15, -5,
    -5, 30, 25, 20, 30, 20, 20, -5,
    5, 50, 50, 50, 50, 50, 50, 5,
    0, 0, 0, 0, 0, 0, 0, 0 >>
rookEvalBlack == reversed(rookEvalWhite)

queenEval == <<
    -20, -10, -10, -5, -5, -10, -10, -20,
    -10, 0, 0, 0, 0, 0, 0, -10,
    -10, 0, 5, 5, 5, 5, 0, -10,
    -5, 0, 5, 5, 5, 5, 0, -5,
    0, 0, 5, 5, 5, 5, 0, -5,
    -10, 5, 5, 5, 5, 5, 0, -10,
    -10, 0, 5, 0, 0, 0, 0, -10,
    -20, -10, -10, -5, -5, -10, -10, -20 >>

\* 66 entries, as in the source (two rows hold nine)
queenEvalEndGameWhite == <<
    -10, -9, -9, -5, -5, -9, -5, -10,
    1, 4, 5, 9, 11, 13, 12, 6, 1,
    4, 15, 27, 29, 33, 39, 45, 12,
    9, 33, 25, 44, 66, 79, 51, 32,
    0, 22, 12, 15, 19, 33, 32, 14,
    -9, 10, 3, 4, 8, 9, 15, -8,
    -5, 13, 4, 5, 7, 9, 2, 5, 2,
    -10, -15, 13, 19, 21, 18, 11, 1 >>

queenEvalBlack == reversed(queenEval)
queenEvalEndGameBlack == reversed(queenEvalEndGameWhite)

kingEvalWhite == <<
    20, 30, 10, 0, 0, 10, 30, 20,
    20, 20, 0, 0, 0, 0, 20, 20,
    -10, -20, -20, -20, -20, -20, -20, -10,
    20, -30, -30, -40, -40, -30, -30, -20,
    -30, -40, -40, -50, -50, -40, -40, -30,
    -30, -40, -40, -50, -50, -40, -40, -30,
    -30, -40, -40, -50, -50, -40, -40, -30,
    -30, -40, -40, -50, -50, -40, -40, -30 >>
kingEvalBlack == reversed(kingEvalWhite)

kingEvalEndGameWhite == <<
    50, -30, -30, -30, -30, -30, -30, -50,
    -30, -30,  0,  0,  0,  0, -30, -30,
    -30, -10, 20, 60, 60, 20, -10, -30,
    -30, -10, 30, 90, 90, 30, -10, -30,
    -30, -10, 30, 90, 90, 30, -10, -30,
    -30, -10, 20, 60, 60, 20, -10, -30,
    -30, -20, -10,  0,  0, -10, -20, -30,
    -50, -40, -30, -20, -20, -30, -40, -50 >>
kingEvalEndGameBlack == reversed(kingEvalEndGameWhite)

\* evaluate_piece(piece, square, end_game): mapping[square], squares from 0
evaluate_piece(piece, sq, eg) ==
    LET pt    == piece_type_of(piece)
        white == color_of(piece) = WHITE
        mapping ==
            CASE pt = PAWN   -> IF white THEN pawnEvalWhite ELSE pawnEvalBlack
              [] pt = KNIGHT -> knightEval
              [] pt = BISHOP -> IF white THEN bishopEvalWhite ELSE bishopEvalBlack
              [] pt = ROOK   -> IF white THEN rookEvalWhite ELSE rookEvalBlack
              [] pt = QUEEN  -> IF eg
                                THEN (IF white THEN queenEvalEndGameWhite
                                      ELSE queenEvalEndGameBlack)
                                ELSE (IF white THEN queenEval ELSE queenEvalBlack)
              [] pt = KING   -> IF eg
                                THEN (IF white THEN kingEvalEndGameWhite
                                      ELSE kingEvalEndGameBlack)
                                ELSE (IF white THEN kingEvalWhite ELSE kingEvalBlack)
    IN  mapping[sq + 1]

\* check_end_game(board)
check_end_game(b) ==
    LET queens == Cardinality({sq \in SQUARES :
                      piece_at(b, sq) # NoPiece /\ piece_type_of(piece_at(b, sq)) = QUEEN})
        minors == Cardinality({sq \in SQUARES :
                      piece_at(b, sq) # NoPiece
                      /\ piece_type_of(piece_at(b, sq)) \in {BISHOP, KNIGHT}})
    IN  queens = 0 \/ (queens = 2 /\ minors <= 1)

\* evaluate_board's loop over chess.SQUARES, from square sq on
RECURSIVE evaluate_from(_, _, _)
evaluate_from(b, sq, eg) ==
    IF sq > 63 THEN 0
    ELSE LET piece == piece_at(b, sq)
             value == piece_value(piece_type_of(piece)) + evaluate_piece(piece, sq, eg)
         IN  (IF piece = NoPiece THEN 0
              ELSE IF color_of(piece) = WHITE THEN value ELSE 0 - value)
             + evaluate_from(b, sq + 1, eg)

\* evaluate_board(board)
evaluate_board(b) == evaluate_from(b, 0, check_end_game(b))

-----------------------------------------------------------------------------
(* The opening book and the move search: modules fendict and               *)
(* movegeneration, imported by communication.py; modelled by their         *)
(* contract.                                                               *)

\* fen_dict: a static mapping from a four-field FEN key to a move
fen_dict ==
    [k \in {"rnbqkbnr/pppppppp/8/8/8/8/PPPPPPPP/RNBQKBNR w KQkq -",
            "rnbqkbnr/pppppppp/8/8/4P3/8/PPPP1PPP/RNBQKBNR b KQkq -"} |->
        IF k = "rnbqkbnr/pppppppp/8/8/8/8/PPPPPPPP/RNBQKBNR w KQkq -"
        THEN "e2e4" ELSE "e7e5"]

\* next_move(depth, board): the moves the search may return; it leaves the
\* board as it found it.
next_move(dep, b) ==
    LET legal == {u \in {"e2e4", "g1f3", "e7e5", "g8f6"} : ~push_uci_raises(b, u)}
    IN  IF legal = {} THEN {"None"} ELSE legal

-----------------------------------------------------------------------------
(* The UCI session controller: src/src/communication.py.                   *)

\* What one call of command() did: the board it left, the lines it printed,
\* the searches it ran, and the exception it raised ("" if it returned).
Result(b, o, c, e) == [board |-> b, out |-> o, calls |-> c, exc |-> e]

\* get_depth() without the floor: return int(args.depth)
get_depth_unclamped(args) ==
    IF Len(args) >= 2 /\ args[1] = "--depth" THEN int(args[2]) ELSE 1

\* get_depth(): --depth defaults to 1; the depth is max([2, int(args.depth)])
get_depth(args) ==
    LET given == IF Len(args) >= 2 /\ args[1] = "--depth" THEN int(args[2]) ELSE 1
    IN  IF given > 2 THEN given ELSE 2

\* msg.split(" ") with every "" removed
tokenize(m) == SelectSeq(split(m, " "), LAMBDA t : t # "")

\* the loop over the move tokens with the rejection caught and the token skipped
RECURSIVE apply_moves_skipping(_, _)
apply_moves_skipping(b, moves) ==
    IF moves = <<>> THEN Result(b, <<>>, <<>>, "")
    ELSE IF push_uci_raises(b, Head(moves)) THEN apply_moves_skipping(b, Tail(moves))
    ELSE apply_moves_skipping(push_uci(b, Head(moves)), Tail(moves))

\* for move in tokens[(moves_start+1):]: board.push_uci(move)
RECURSIVE apply_moves(_, _)
apply_moves(b, moves) ==
    IF moves = <<>> THEN Result(b, <<>>, <<>>, "")
    ELSE IF push_uci_raises(b, Head(moves)) THEN Result(b, <<>>, <<>>, "ValueError")
    ELSE apply_moves(push_uci(b, Head(moves)), Tail(moves))

\* "# Apply moves": nothing unless tokens[moves_start] is "moves"
moves_part(b, tokens, moves_start) ==
    IF Len(tokens) <= moves_start \/ tokens[moves_start + 1] # "moves"
    THEN Result(b, <<>>, <<>>, "")
    ELSE apply_moves(b, slice(tokens, moves_start + 1, Len(tokens)))

\* the "position fen" branch
position_fen(b, tokens) ==
    LET load(fenstr, revised_fen) ==
            IF set_fen_raises(fenstr) THEN Result(b, <<>>, <<>>, "ValueError")
            ELSE IF revised_fen \in DOMAIN fen_dict
            THEN Result(set_fen(fenstr), <<"bestmove " \o fen_dict[revised_fen]>>,
                        <<>>, "")
            ELSE moves_part(set_fen(fenstr), tokens, 8)
    IN  load(join(" ", slice(tokens, 2, 8)), join(" ", slice(tokens, 2, 6)))

\* the position block without its final "else: return": a second token that is
\* not "fen" is taken for "startpos"
position_else_startpos(b, tokens) ==
    IF Len(tokens) < 2 THEN Result(b, <<>>, <<>>, "")
    ELSE IF tokens[2] = "fen" THEN position_fen(b, tokens)
    ELSE moves_part(reset, tokens, 2)

\* the block of: if msg.startswith("position")
position(b, tokens) ==
    IF Len(tokens) < 2 THEN Result(b, <<>>, <<>>, "")
    ELSE IF tokens[2] = "startpos" THEN moves_part(reset, tokens, 2)
    ELSE IF tokens[2] = "fen" THEN position_fen(b, tokens)
    ELSE Result(b, <<>>, <<>>, "")

\* the uci block that answers "uciok" before it has identified itself
uci_ok_first(b) ==
    Result(b, <<"uciok", "id name Sacai", "id author Sanchit Sehgal">>, <<>>, "")

\* the block of: if msg == "uci"
uci(b) == Result(b, <<"id name Sacai", "id author Sanchit Sehgal", "uciok">>, <<>>, "")

\* the block of: if msg == "isready"
isready(b) == Result(b, <<"readyok">>, <<>>, "")

\* the block of: if msg == "d"
print_board(b) == Result(b, <<board_str(b.pieces), fen(b)>>, <<>>, "")

\* the go block that looks the whole FEN up, all six fields of it
go_six_field_key(dep, b) ==
    LET look(new_fen) ==
            IF new_fen \in DOMAIN fen_dict
            THEN {Result(b, <<"bestmove " \o fen_dict[new_fen]>>, <<>>, "")}
            ELSE {Result(b, <<"bestmove " \o mv>>,
                         <<[depth |-> dep, fen |-> fen(b), move |-> mv]>>, "")
                  : mv \in next_move(dep, b)}
    IN  look(fen(b))

\* the block of: if msg[0:2] == "go".  The outcomes, one for each move the
\* search may return; a call records the depth and position it was given and
\* the move it returned.
go(dep, b) ==
    LET look(new_fen) ==
            IF new_fen \in DOMAIN fen_dict
            THEN {Result(b, <<"bestmove " \o fen_dict[new_fen]>>, <<>>, "")}
            ELSE {Result(b, <<"bestmove " \o mv>>,
                         <<[depth |-> dep, fen |-> fen(b), move |-> mv]>>, "")
                  : mv \in next_move(dep, b)}
    IN  look(join(" ", slice(split(fen(b), " "), 0, 4)))

\* command(depth, board, msg): its possible outcomes.  A line that starts with
\* "position" and falls out of its block meets the tests for "d" and "go", which
\* it fails.
command(dep, b, line) ==
    LET dispatch(m) ==
            IF m = "quit" THEN {Result(b, <<>>, <<>>, "SystemExit")}
            ELSE IF m = "uci" THEN {uci(b)}
            ELSE IF m = "isready" THEN {isready(b)}
            ELSE IF m = "ucinewgame" THEN {Result(b, <<>>, <<>>, "")}
            ELSE IF startswith(m, "position") THEN {position(b, tokenize(m))}
            ELSE IF m = "d" THEN {print_board(b)}
            ELSE IF startswith(m, "go") THEN go(dep, b)
            ELSE {Result(b, <<>>, <<>>, "")}
    IN  dispatch(strip(line))

\* the line sets a position: it reaches board.reset() or board.set_fen()
sets_position(line) ==
    LET second(tokens) == Len(tokens) >= 2 /\ tokens[2] \in {"startpos", "fen"}
        sets(m)        == startswith(m, "position") /\ second(tokenize(m))
    IN  sets(strip(line))

-----------------------------------------------------------------------------
(* The bounded inputs.                                                     *)

MaxMoves == 2       \* move tokens after "position startpos moves"
MaxFenMoves == 1    \* move tokens after "position fen ... moves"
MaxMinors == 2      \* minor pieces a side has on an evaluated board

\* a legal first move, a legal reply, and a move no position here allows
MoveTokens == {"e2e4", "e7e5", "e2e5"}

MoveLists(n) == UNION {[1..k -> MoveTokens] : k \in 0..n}

\* after 1. e4 as a FEN names it (en passant square e3); the same position with
\* "-" for the square, which is a key of the book; a position outside the book
Fens ==
    {"rnbqkbnr/pppppppp/8/8/4P3/8/PPPP1PPP/RNBQKBNR b KQkq e3 0 1",
     "rnbqkbnr/pppppppp/8/8/4P3/8/PPPP1PPP/RNBQKBNR b KQkq - 0 1",
     "4k3/8/8/8/8/8/4P3/4K3 w - - 0 1"}

MovesSuffix(ml) == IF ml = <<>> THEN "" ELSE " moves " \o join(" ", ml)

PositionLines ==
    {"position startpos" \o MovesSuffix(ml) : ml \in MoveLists(MaxMoves)}
    \cup {"position fen " \o f \o MovesSuffix(ml) : f \in Fens, ml \in MoveLists(MaxFenMoves)}

OtherLines ==
    {"quit", "uci", "isready", "ucinewgame", "d", "go", "go depth 9", "gopher",
     "", "  uci ", "stop", "setoption name Hash value 16", "position",
     "position current", "position fen", "position  startpos e2e4",
     "positions startpos moves e2e4"}

Lines == PositionLines \cup OtherLines

\* the lines of Lines that set a position
SettingLines == {line \in Lines : sets_position(line)}

\* the command lines the process may be started with
Argvs == {<<>>, <<"--depth", "1">>, <<"--depth", "5">>, <<"--depth", "-3">>}

\* boards for the evaluator: the starting position, and the kings with, for each
\* side, a queen or none, up to MaxMinors minor pieces, and a rook or none
Material(wq, wm, wr, bq, bm, br) ==
    [i \in 1..64 |-> LET sq == i - 1 IN
        CASE sq = 4  -> "K"
          [] sq = 60 -> "k"
          [] sq = 3  /\ wq -> "Q"
          [] sq = 59 /\ bq -> "q"
          [] sq = 0  /\ wr -> "R"
          [] sq = 56 /\ br -> "r"
          [] sq \in 8..15  /\ sq - 8 < wm  -> IF sq % 2 = 0 THEN "N" ELSE "B"
          [] sq \in 48..55 /\ sq - 48 < bm -> IF sq % 2 = 0 THEN "n" ELSE "b"
          [] OTHER -> NoPiece]

EvalBoards ==
    {reset} \cup
    {[reset EXCEPT !.pieces = Material(wq, wm, wr, bq, bm, br), !.castling = {}] :
        wq \in BOOLEAN, wm \in 0..MaxMinors, wr \in BOOLEAN,
        bq \in BOOLEAN, bm \in 0..MaxMinors, br \in BOOLEAN}

-----------------------------------------------------------------------------
(* The session: talk().                                                    *)

\* talk() up to its loop: board = chess.Board(); depth = get_depth()
Init ==
    /\ argv \in Argvs
    /\ depth = get_depth(argv)
    /\ board = reset
    /\ status = "running"
    /\ exc = ""
    /\ msg = ""
    /\ out = <<>>
    /\ calls = <<>>
    /\ lastpos = ""
    /\ total = NoValue
    /\ end_game = NoValue

\* msg = input(); command(depth, board, msg).  Nothing in talk() catches what
\* command() raises: SystemExit ends the process, any other exception crashes it.
Command ==
    /\ status = "running"
    /\ \E line \in Lines :
          \E r \in command(depth, board, line) :
             /\ msg' = line
             /\ board' = r.board
             /\ out' = r.out
             /\ calls' = r.calls
             /\ exc' = r.exc
             /\ status' = (IF r.exc = "" THEN "running"
                           ELSE IF r.exc = "SystemExit" THEN "exited"
                           ELSE "crashed")
             /\ lastpos' = (IF line \in SettingLines THEN line ELSE lastpos)
    /\ UNCHANGED <<argv, depth, total, end_game>>

\* msg = input() at the end of standard input: input() raises EOFError, which
\* nothing catches.
EndOfInput ==
    /\ status = "running"
    /\ status' = "crashed"
    /\ exc' = "EOFError"
    /\ out' = <<>>
    /\ calls' = <<>>
    /\ UNCHANGED <<argv, depth, board, msg, lastpos, total, end_game>>

Next == Command \/ EndOfInput

Spec == Init /\ [][Next]_vars

-----------------------------------------------------------------------------
(* The evaluator, applied to boards drawn from EvalBoards.                 *)

InitEval ==
    /\ argv = <<>>
    /\ depth = get_depth(argv)
    /\ board \in EvalBoards
    /\ status = "running"
    /\ exc = ""
    /\ msg = ""
    /\ out = <<>>
    /\ calls = <<>>
    /\ lastpos = ""
    /\ total = NoValue
    /\ end_game = NoValue

EvaluateBoard ==
    /\ total' = <<evaluate_board(board)>>
    /\ UNCHANGED <<argv, depth, board, status, exc, msg, out, calls, lastpos, end_game>>

CheckEndGame ==
    /\ end_game' = <<check_end_game(board)>>
    /\ UNCHANGED <<argv, depth, board, status, exc, msg, out, calls, lastpos, total>>

NextEval == EvaluateBoard \/ CheckEndGame

SpecEval == InitEval /\ [][NextEval]_vars

-----------------------------------------------------------------------------
(* The claims about the session.                                           *)

\* a step that reads a line and hands it to command(): msg' is that line
CommandStep == status = "running" /\ exc' # "EOFError"

\* the step changed nothing and printed nothing
Nothing ==
    /\ board' = board
    /\ out' = <<>>
    /\ calls' = <<>>
    /\ exc' = ""
    /\ status' = "running"

\* the Opening Book Key of a board: the first four fields of its FEN
KeyOfBoard(b) == join(" ", slice(split(fen(b), " "), 0, 4))

\* the Opening Book Key of a "position fen" line: its tokens 2..5
KeyOfCommand(tokens) == join(" ", slice(tokens, 2, 6))

\* the six FEN fields of a "position fen" line: its tokens 2..7
FenOfCommand(tokens) == join(" ", slice(tokens, 2, 8))

\* the position a "position startpos" / "position fen <6 fields>" line names
NamedPosition(tokens) ==
    IF tokens[2] = "startpos" THEN reset ELSE set_fen(FenOfCommand(tokens))

\* the move tokens listed after the line's "moves" keyword
ListedMoves(tokens) ==
    IF \E i \in 1..Len(tokens) : tokens[i] = "moves"
    THEN LET first == CHOOSE i \in 1..Len(tokens) :
                          tokens[i] = "moves" /\ \A j \in 1..(i - 1) : tokens[j] # "moves"
         IN  SubSeq(tokens, first + 1, Len(tokens))
    ELSE <<>>

\* the moves from the k-th on, played in order for as long as the rules library
\* accepts them: the board reached, and the index of the move it rejected
\* (Len(moves) + 1 if it accepted them all)
RECURSIVE Replay(_, _, _)
Replay(b, moves, k) ==
    IF k > Len(moves) \/ push_uci_raises(b, moves[k])
    THEN [board |-> b, rejected |-> k]
    ELSE Replay(push_uci(b, moves[k]), moves, k + 1)

\* C1: after commands that all went through without an exception, the board is
\* the position named by the most recent position command (the initial position
\* if there was none) with every move listed after its "moves" keyword applied
\* in order; no listed move is left unapplied.
C1_BoardReflectsCommands ==
    status = "running" =>
        IF lastpos = "" THEN board = reset
        ELSE \A tokens \in {tokenize(strip(lastpos))} :
             \A moves \in {ListedMoves(tokens)} :
             \A played \in {Replay(NamedPosition(tokens), moves, 1)} :
                 played.rejected > Len(moves) => board = played.board

\* C2: for every go command, with K the first four fields of the board's FEN,
\* the search is invoked iff K is absent from the book, and exactly one bestmove
\* line is printed: the book entry for K on a hit, the move the search returned
\* on a miss.
C2_GoSearchesIffKeyAbsent ==
    [][(CommandStep /\ startswith(strip(msg'), "go")) =>
          \A K \in {KeyOfBoard(board)} :
              /\ (calls' # <<>>) <=> (K \notin DOMAIN fen_dict)
              /\ Len(calls') <= 1
              /\ Len(out') = 1
              /\ out'[1] = "bestmove " \o (IF K \in DOMAIN fen_dict THEN fen_dict[K]
                                            ELSE calls'[1].move)
              /\ exc' = ""]_vars

\* C2 happens: a go answered from the book without a search, after a position
\* command brought the board there
C2_Witness ==
    /\ msg = "go"
    /\ lastpos = "position startpos moves e2e4"
    /\ out = <<"bestmove e7e5">>
    /\ calls = <<>>

\* a line the dispatcher has no branch for: it is none of the exact commands,
\* starts with neither "go" nor "position", or is a position line of fewer than
\* two tokens or with a second token other than startpos and fen
Ignored(m, tokens) ==
    /\ m \notin {"quit", "uci", "isready", "ucinewgame", "d"}
    /\ ~startswith(m, "go")
    /\ startswith(m, "position") =>
           (Len(tokens) < 2 \/ tokens[2] \notin {"startpos", "fen"})

\* a position startpos / position fen <6 valid fields> line without the "moves"
\* keyword where the code looks for it
LacksMoves(m, tokens) ==
    /\ startswith(m, "position")
    /\ Len(tokens) >= 2
    /\ \/ /\ tokens[2] = "startpos"
          /\ (Len(tokens) = 2 \/ tokens[3] # "moves")
       \/ /\ tokens[2] = "fen"
          /\ Len(tokens) >= 8
          /\ (Len(tokens) = 8 \/ tokens[9] # "moves")
          /\ ~set_fen_raises(FenOfCommand(tokens))

\* what a LacksMoves line prints: the book move of a position fen key, or nothing
BookAnswer(tokens) ==
    IF tokens[2] = "fen" /\ KeyOfCommand(tokens) \in DOMAIN fen_dict
    THEN <<"bestmove " \o fen_dict[KeyOfCommand(tokens)]>>
    ELSE <<>>

NotRecognized(m, tokens) ==
    /\ m \notin {"quit", "uci", "isready", "ucinewgame", "d"}
    /\ ~startswith(m, "go")
    /\ startswith(m, "position") =>
           \/ Len(tokens) < 2
           \/ tokens[2] \notin {"startpos", "fen"}
           \/ tokens[2] = "startpos" /\ Len(tokens) > 2 /\ tokens[3] # "moves"
           \/ tokens[2] = "fen" /\ Len(tokens) > 8 /\ tokens[9] # "moves"

C4_EndOfInputExitsCleanly ==
    exc = "EOFError" => (status = "exited" /\ out = <<>>)

\* C5: after a position fen <6 fields> command that loaded, the key built from
\* the command's tokens 2..5 is the key built from the first four fields of the
\* resulting board's FEN, which is the key an immediately following go looks up.
C5_KeysAgree ==
    status = "running" =>
        \A tokens \in {tokenize(strip(msg))} :
            (Len(tokens) = 8 /\ tokens[1] = "position" /\ tokens[2] = "fen") =>
                KeyOfCommand(tokens) = KeyOfBoard(board)

\* the integer the --depth flag gives, 1 when the flag is absent
FlagValue(args) == IF args = <<>> THEN 1 ELSE int(args[Len(args)])

C8_HandshakeLeavesBoard ==
    [][CommandStep =>
          \A m \in {strip(msg')} :
              /\ m \in {"uci", "isready", "ucinewgame"} =>
                     (board' = board /\ calls' = <<>> /\ exc' = "")
              /\ m = "uci" =>
                     out' = <<"id name Sacai", "id author Sanchit Sehgal", "uciok">>
              /\ m = "isready" => out' = <<"readyok">>
              /\ m = "ucinewgame" => out' = <<>>]_vars

\* C8 happens: uci was answered with the board away from the initial position
C8_Witness ==
    /\ msg = "uci"
    /\ Len(out) = 3
    /\ board # reset
    /\ status = "running"

\* the line reaches the loop over its move tokens: a position startpos line, or
\* a position fen line that loads and whose key is not in the book, with the
\* moves keyword in its place
ReachesMoves(m, tokens) ==
    /\ startswith(m, "position")
    /\ Len(tokens) >= 2
    /\ \/ tokens[2] = "startpos" /\ Len(tokens) > 2 /\ tokens[3] = "moves"
       \/ /\ tokens[2] = "fen"
          /\ Len(tokens) > 8
          /\ tokens[9] = "moves"
          /\ KeyOfCommand(tokens) \notin DOMAIN fen_dict
          /\ ~set_fen_raises(FenOfCommand(tokens))

\* C9: when the rules library rejects a move token of a position line, the line
\* stops there with a failure nothing catches: the tokens before it stay applied,
\* no later token is applied, nothing is printed, and no further line is read.
C9_RejectedMoveStopsSession ==
    [][/\ status # "running" => UNCHANGED vars
       /\ CommandStep =>
              \A m \in {strip(msg')} : \A tokens \in {tokenize(m)} :
                  ReachesMoves(m, tokens) =>
                      \A moves \in {ListedMoves(tokens)} :
                      \A played \in {Replay(NamedPosition(tokens), moves, 1)} :
                          played.rejected <= Len(moves) =>
                              /\ exc' = "ValueError"
                              /\ status' = "crashed"
                              /\ board' = played.board
                              /\ out' = <<>>
                              /\ calls' = <<>>]_vars

\* C9 happens: the second move of the line was rejected, the first stays applied
C9_Witness ==
    /\ msg = "position startpos moves e2e4 e2e5"
    /\ status = "crashed"
    /\ exc = "ValueError"
    /\ board = push_uci(reset, "e2e4")

-----------------------------------------------------------------------------
(* The claims about the evaluator.                                         *)

\* C6: for the initial position evaluate_board returns 0: the white sum of
\* material and piece-square entries equals the black sum.
C6_InitialPositionScoresZero ==
    (board = reset /\ total # NoValue) => total[1] = 0

\* the number of pieces of a colour on the board with a type among types
Count(b, color, types) ==
    Cardinality({sq \in SQUARES :
        /\ piece_at(b, sq) # NoPiece
        /\ color_of(piece_at(b, sq)) = color
        /\ piece_type_of(piece_at(b, sq)) \in types})

\* the rule of check_end_game's docstring: neither side has a queen, or every
\* side that has a queen has besides it no other piece, or one minor piece
Michniewski(b) ==
    \A color \in {WHITE, BLACK} :
        Count(b, color, {QUEEN}) > 0 =>
            /\ Count(b, color, {QUEEN}) = 1
            /\ Count(b, color, {PAWN, ROOK}) = 0
            /\ Count(b, color, {BISHOP, KNIGHT}) <= 1

\* C10: check_end_game returns true whenever neither side has a queen and
\* whenever every side that has a queen has besides it no other piece or at most
\* one minor piece; so also when one side alone has a queen and no minor piece.
C10_EndGameFollowsMichniewski ==
    (end_game # NoValue /\ Michniewski(board)) => end_game[1] = TRUE

=============================================================================
